---- MODULE Spec2Model ----
(***************************************************************************)
(* Security Control Checker (src/app.py): text normalisation, the regex    *)
(* rule catalogue, evaluate, results_to_dataframe and the upload loop.     *)
(*                                                                         *)
(* A Python str is a sequence of characters; a character is a one-letter   *)
(* TLA+ string, or the name "U+XXXX" of a code point outside ASCII.        *)
(* A Python dict is an insertion-ordered sequence of <<key, value>> pairs. *)
(* A pattern of the catalogue is its source string; re_compile gives the   *)
(* parsed regular expression that re.search runs.                          *)
(***************************************************************************)
EXTENDS Integers, Sequences, FiniteSets, TLC

VARIABLES
  text, out, epc,                      \* a call of evaluate: argument, result, position
  s, r1, r2, npc,                      \* normalize applied once and twice to s
  uploads, idx, results, df, ui, pc    \* the upload processing loop of the script

vars == <<text, out, epc, s, r1, r2, npc, uploads, idx, results, df, ui, pc>>

(***************************** bounds **************************************)
MaxChunks == 2     \* an argument of evaluate is made of at most MaxChunks chunks
MaxLen == 4        \* an argument of normalize has at most MaxLen characters
MaxFiles == 2      \* at most MaxFiles files are uploaded in one run

(************************** Python values **********************************)
\* Optional[str]: None, or a str.
None == [some |-> FALSE]
Some(v) == [some |-> TRUE, v |-> v]

\* dict.get(k, default) on an insertion-ordered dict.
DictGet(d, k, default) ==
  IF \E n \in 1..Len(d) : d[n][1] = k
    THEN d[CHOOSE n \in 1..Len(d) : d[n][1] = k][2]
    ELSE default

\* d[k] = v: an existing key keeps its position and takes the new value,
\* a new key is appended.
DictSet(d, k, v) ==
  IF \E n \in 1..Len(d) : d[n][1] = k
    THEN [n \in 1..Len(d) |-> IF d[n][1] = k THEN <<k, v>> ELSE d[n]]
    ELSE Append(d, <<k, v>>)

DictKeys(d) == [n \in 1..Len(d) |-> d[n][1]]

(************************** characters *************************************)
UpperLetters == <<"A","B","C","D","E","F","G","H","I","J","K","L","M",
                  "N","O","P","Q","R","S","T","U","V","W","X","Y","Z">>
LowerLetters == <<"a","b","c","d","e","f","g","h","i","j","k","l","m",
                  "n","o","p","q","r","s","t","u","v","w","x","y","z">>

\* Characters str.isspace() and the regex class \s accept (for a str pattern
\* they are the same set): of Python's 29, the ASCII ones that occur in the
\* inputs and U+00A0 NO-BREAK SPACE.
Whitespace == {" ", "\t", "\n", "U+00A0"}

\* str.isupper() of one character: A..Z, U+0130 (capital I with dot above) and
\* U+2102 (double-struck capital C, category Lu).
IsUpperChar(c) ==
  \/ \E n \in 1..Len(UpperLetters) : UpperLetters[n] = c
  \/ c \in {"U+0130", "U+2102"}

\* str.lower() of one character.  A..Z map to a..z; U+0130 lowers to the TWO
\* characters "i" U+0307; U+2102 has no lowercase mapping in Unicode and is
\* returned unchanged, as is every other character.
LowerTable ==
  [c \in {UpperLetters[n] : n \in 1..Len(UpperLetters)} |->
      <<LowerLetters[CHOOSE n \in 1..Len(UpperLetters) : UpperLetters[n] = c]>>]
  @@ ("U+0130" :> <<"i", "U+0307">>)

lower_char(c) == IF c \in DOMAIN LowerTable THEN LowerTable[c] ELSE <<c>>

RECURSIVE lower_from(_, _)
lower_from(str, n) ==
  IF n > Len(str) THEN <<>> ELSE lower_char(str[n]) \o lower_from(str, n + 1)

\* str.lower()
lower(str) == lower_from(str, 1)

RECURSIVE sub_from(_, _)
sub_from(str, n) ==
  IF n > Len(str) THEN <<>>
  ELSE IF str[n] \in Whitespace
    THEN (IF n > 1 /\ str[n - 1] \in Whitespace THEN <<>> ELSE <<" ">>)
         \o sub_from(str, n + 1)
    ELSE <<str[n]>> \o sub_from(str, n + 1)

\* The substitution with the pattern \s in place of \s+: every whitespace
\* character becomes a space of its own.
sub_each_whitespace(str) ==
  [n \in 1..Len(str) |-> IF str[n] \in Whitespace THEN " " ELSE str[n]]

\* re.sub(r"\s+", " ", str): every maximal run of whitespace becomes one space.
sub_whitespace(str) == sub_from(str, 1)

\* src/app.py:32-33.  `text or ""` turns None (and "") into "".
normalize(t) == lower(sub_whitespace(IF t = None THEN <<>> ELSE t.v))

\* str.strip(): leading and trailing whitespace removed.
strip(str) ==
  LET inner == {n \in 1..Len(str) : str[n] \notin Whitespace}
  IN  IF inner = {} THEN <<>>
      ELSE SubSeq(str, CHOOSE n \in inner : \A m \in inner : n <= m,
                       CHOOSE n \in inner : \A m \in inner : m <= n)

(************************ regular expressions ******************************)
\* Character classes of the catalogue's patterns.
Chr(c)   == [k |-> "in", set |-> {c}]        \* a literal character
OneOf(S) == [k |-> "in", set |-> S]          \* [...]
Dot      == [k |-> "dot", set |-> {}]        \* .   (no DOTALL: not a newline)
Space    == [k |-> "space", set |-> {}]      \* \s

\* Quantified items.
One(c)  == [cls |-> c, q |-> "1"]
Opt(c)  == [cls |-> c, q |-> "?"]
Star(c) == [cls |-> c, q |-> "*"]

Lit(str) == [n \in 1..Len(str) |-> One(Chr(str[n]))]

ClassHas(cls, c) ==
  CASE cls.k = "in"    -> c \in cls.set
    [] cls.k = "dot"   -> c # "\n"
    [] cls.k = "space" -> c \in Whitespace

\* Does items n.. of the expression match a prefix of t[j..] ?
RECURSIVE MatchAt(_, _, _, _)
MatchAt(re, n, t, j) ==
  IF n > Len(re) THEN TRUE
  ELSE LET here == j <= Len(t) /\ ClassHas(re[n].cls, t[j])
       IN  CASE re[n].q = "1" -> here /\ MatchAt(re, n + 1, t, j + 1)
             [] re[n].q = "?" -> \/ (here /\ MatchAt(re, n + 1, t, j + 1))
                                 \/ MatchAt(re, n + 1, t, j)
             [] re[n].q = "*" -> \/ (here /\ MatchAt(re, n, t, j + 1))
                                 \/ MatchAt(re, n + 1, t, j)

(**************************** catalogue ************************************)
\* src/app.py:7-26. An insertion-ordered dict: a sequence of <<key, value>> pairs.
CONTROLS ==
  << <<"data_destruction", <<"certificate of data destruction", "permanently destroyed", "irreversibly destroyed", "secure data wiping", "physical destruction">>>>,
     <<"firewall_open_ports", <<"0\\.0\\.0\\.0/0.*tcp:?\\s*22", "tcp:?\\s*22.*0\\.0\\.0\\.0/0", "0\\.0\\.0\\.0/0.*tcp:?\\s*3389", "tcp:?\\s*3389.*0\\.0\\.0\\.0/0">>>>,
     <<"mfa_required", <<"require mfa", "duo push", "mfa for all users">>>>,
     <<"block_legacy_auth", <<"block legacy authentication">>>>,
     <<"physical_access", <<"badge[- ]?only", "biometric", "restricted", "access control">>>>,
     <<"visitor_log", <<"visitor log", "reason for visit", "time in", "time out">>>>,
     <<"iam_least_privilege", <<"action.*s3:get\\*", "action.*s3:list\\*">>>> >>

\* src/app.py:27-29.
FAIL_PATTERNS ==
  << <<"iam_least_privilege", <<"action.*\\*.*resource.*\\*">>>> >>

\* The parsed form of every pattern string of the catalogue (re.compile).
re_compile ==
  ("certificate of data destruction" :>
       Lit(<<"c", "e", "r", "t", "i", "f", "i", "c", "a", "t", "e", " ", "o", "f", " ", "d", "a", "t", "a", " ", "d", "e", "s", "t", "r", "u", "c", "t", "i", "o", "n">>))
  @@ ("permanently destroyed" :>
       Lit(<<"p", "e", "r", "m", "a", "n", "e", "n", "t", "l", "y", " ", "d", "e", "s", "t", "r", "o", "y", "e", "d">>))
  @@ ("irreversibly destroyed" :>
       Lit(<<"i", "r", "r", "e", "v", "e", "r", "s", "i", "b", "l", "y", " ", "d", "e", "s", "t", "r", "o", "y", "e", "d">>))
  @@ ("secure data wiping" :>
       Lit(<<"s", "e", "c", "u", "r", "e", " ", "d", "a", "t", "a", " ", "w", "i", "p", "i", "n", "g">>))
  @@ ("physical destruction" :>
       Lit(<<"p", "h", "y", "s", "i", "c", "a", "l", " ", "d", "e", "s", "t", "r", "u", "c", "t", "i", "o", "n">>))
  @@ ("0\\.0\\.0\\.0/0.*tcp:?\\s*22" :>
       Lit(<<"0", ".", "0", ".", "0", ".", "0", "/", "0">>) \o <<Star(Dot)>> \o Lit(<<"t", "c", "p">>) \o <<Opt(Chr(":"))>> \o <<Star(Space)>> \o Lit(<<"2", "2">>))
  @@ ("tcp:?\\s*22.*0\\.0\\.0\\.0/0" :>
       Lit(<<"t", "c", "p">>) \o <<Opt(Chr(":"))>> \o <<Star(Space)>> \o Lit(<<"2", "2">>) \o <<Star(Dot)>> \o Lit(<<"0", ".", "0", ".", "0", ".", "0", "/", "0">>))
  @@ ("0\\.0\\.0\\.0/0.*tcp:?\\s*3389" :>
       Lit(<<"0", ".", "0", ".", "0", ".", "0", "/", "0">>) \o <<Star(Dot)>> \o Lit(<<"t", "c", "p">>) \o <<Opt(Chr(":"))>> \o <<Star(Space)>> \o Lit(<<"3", "3", "8", "9">>))
  @@ ("tcp:?\\s*3389.*0\\.0\\.0\\.0/0" :>
       Lit(<<"t", "c", "p">>) \o <<Opt(Chr(":"))>> \o <<Star(Space)>> \o Lit(<<"3", "3", "8", "9">>) \o <<Star(Dot)>> \o Lit(<<"0", ".", "0", ".", "0", ".", "0", "/", "0">>))
  @@ ("require mfa" :>
       Lit(<<"r", "e", "q", "u", "i", "r", "e", " ", "m", "f", "a">>))
  @@ ("duo push" :>
       Lit(<<"d", "u", "o", " ", "p", "u", "s", "h">>))
  @@ ("mfa for all users" :>
       Lit(<<"m", "f", "a", " ", "f", "o", "r", " ", "a", "l", "l", " ", "u", "s", "e", "r", "s">>))
  @@ ("block legacy authentication" :>
       Lit(<<"b", "l", "o", "c", "k", " ", "l", "e", "g", "a", "c", "y", " ", "a", "u", "t", "h", "e", "n", "t", "i", "c", "a", "t", "i", "o", "n">>))
  @@ ("badge[- ]?only" :>
       Lit(<<"b", "a", "d", "g", "e">>) \o <<Opt(OneOf({"-", " "}))>> \o Lit(<<"o", "n", "l", "y">>))
  @@ ("biometric" :>
       Lit(<<"b", "i", "o", "m", "e", "t", "r", "i", "c">>))
  @@ ("restricted" :>
       Lit(<<"r", "e", "s", "t", "r", "i", "c", "t", "e", "d">>))
  @@ ("access control" :>
       Lit(<<"a", "c", "c", "e", "s", "s", " ", "c", "o", "n", "t", "r", "o", "l">>))
  @@ ("visitor log" :>
       Lit(<<"v", "i", "s", "i", "t", "o", "r", " ", "l", "o", "g">>))
  @@ ("reason for visit" :>
       Lit(<<"r", "e", "a", "s", "o", "n", " ", "f", "o", "r", " ", "v", "i", "s", "i", "t">>))
  @@ ("time in" :>
       Lit(<<"t", "i", "m", "e", " ", "i", "n">>))
  @@ ("time out" :>
       Lit(<<"t", "i", "m", "e", " ", "o", "u", "t">>))
  @@ ("action.*s3:get\\*" :>
       Lit(<<"a", "c", "t", "i", "o", "n">>) \o <<Star(Dot)>> \o Lit(<<"s", "3", ":", "g", "e", "t", "*">>))
  @@ ("action.*s3:list\\*" :>
       Lit(<<"a", "c", "t", "i", "o", "n">>) \o <<Star(Dot)>> \o Lit(<<"s", "3", ":", "l", "i", "s", "t", "*">>))
  @@ ("action.*\\*.*resource.*\\*" :>
       Lit(<<"a", "c", "t", "i", "o", "n">>) \o <<Star(Dot)>> \o Lit(<<"*">>) \o <<Star(Dot)>> \o Lit(<<"r", "e", "s", "o", "u", "r", "c", "e">>) \o <<Star(Dot)>> \o Lit(<<"*">>))

\* re.search(p, t): the pattern matches somewhere in t.
re_search(p, t) == \E j \in 1..(Len(t) + 1) : MatchAt(re_compile[p], 1, t, j)

(***************************** evaluate ************************************)
\* Only the first compliance pattern that matches is recorded.
hits_first_only(pats, t) ==
  LET all == SelectSeq(pats, LAMBDA p : re_search(p, t))
  IN  IF all = <<>> THEN <<>> ELSE <<all[1]>>

\* src/app.py:93.
hits_of(pats, t) == SelectSeq(pats, LAMBDA p : re_search(p, t))

\* The failure patterns of the catalogue applied to every control.
fails_of_shared(ctrl, t) ==
  SelectSeq(FAIL_PATTERNS[1][2], LAMBDA p : re_search(p, t))

\* src/app.py:94.
fails_of(ctrl, t) ==
  SelectSeq(DictGet(FAIL_PATTERNS, ctrl, <<>>), LAMBDA p : re_search(p, t))

\* Compliance evidence tested before failure evidence.
status_hits_first(hits, fails) ==
  IF hits # <<>> THEN "COMPLIANT"
  ELSE IF fails # <<>> THEN "NON_COMPLIANT" ELSE "INSUFFICIENT_EVIDENCE"

\* No evidence of failure taken for compliance.
status_default_compliant(hits, fails) ==
  IF fails # <<>> THEN "NON_COMPLIANT" ELSE "COMPLIANT"

\* src/app.py:95.
status_of(hits, fails) ==
  IF fails # <<>> THEN "NON_COMPLIANT"
  ELSE IF hits # <<>> THEN "COMPLIANT" ELSE "INSUFFICIENT_EVIDENCE"

\* Failure hits recorded before compliance hits.
matches_fails_first(hits, fails) == fails \o hits

\* src/app.py:96.
matches_of(hits, fails) == hits \o fails

\* src/app.py:92-96, the loop over CONTROLS.items() from entry n on.
RECURSIVE evaluate_from(_, _, _)
evaluate_from(t, n, acc) ==
  IF n > Len(CONTROLS) THEN acc
  ELSE LET ctrl  == CONTROLS[n][1]
           hits  == hits_of(CONTROLS[n][2], t)
           fails == fails_of(ctrl, t)
       IN  evaluate_from(t, n + 1,
             DictSet(acc, ctrl, [status  |-> status_of(hits, fails),
                                 matches |-> matches_of(hits, fails)]))

\* Only the controls for which some pattern matched are put in the result.
evaluate_with_evidence(txt) ==
  SelectSeq(evaluate_from(normalize(txt), 1, <<>>),
            LAMBDA kv : kv[2].status # "INSUFFICIENT_EVIDENCE")

\* src/app.py:89-97.
evaluate(txt) == evaluate_from(normalize(txt), 1, <<>>)

(************************** inputs of evaluate *****************************)
Chunks ==
  { <<"C", "e", "r", "t", "i", "f", "i", "c", "a", "t", "e", " ", "o", "f", "\n", "D", "a", "t", "a", " ", " ", "D", "e", "s", "t", "r", "u", "c", "t", "i", "o", "n">>,
    <<"0", ".", "0", ".", "0", ".", "0", "/", "0", " ", "T", "C", "P", ":", "2", "2">>,
    <<"R", "e", "q", "u", "i", "r", "e", "\t", "M", "F", "A">>,
    <<"D", "u", "o", " ", "P", "u", "s", "h">>,
    <<"B", "l", "o", "c", "k", " ", "L", "e", "g", "a", "c", "y", " ", "A", "u", "t", "h", "e", "n", "t", "i", "c", "a", "t", "i", "o", "n">>,
    <<"B", "a", "d", "g", "e", "-", "O", "n", "l", "y">>,
    <<"R", "e", "s", "t", "r", "i", "c", "t", "e", "d", " ", "A", "c", "c", "e", "s", "s", " ", "C", "o", "n", "t", "r", "o", "l">>,
    <<"V", "i", "s", "i", "t", "o", "r", " ", "L", "o", "g">>,
    <<"T", "i", "m", "e", " ", "I", "n">>,
    <<"A", "c", "t", "i", "o", "n", ":", " ", "s", "3", ":", "G", "e", "t", "*">>,
    <<"A", "c", "t", "i", "o", "n", ":", " ", "s", "3", ":", "L", "i", "s", "t", "*">>,
    <<"A", "c", "t", "i", "o", "n", ":", " ", "s", "3", ":", "*", ",", " ", "R", "e", "s", "o", "u", "r", "c", "e", ":", " ", "*">>,
    <<",", " ", "R", "e", "s", "o", "u", "r", "c", "e", ":", " ", "*">>,
    <<"A", "c", "t", "i", "o", "n", ":", " ", "s", "3", ":", "G", "e", "t", "*", ",", " ", "R", "e", "s", "o", "u", "r", "c", "e", ":", " ", "*">>,
    <<" ", "\n">> }

RECURSIVE TextsOf(_)
TextsOf(n) ==
  IF n = 0 THEN {<<>>}
  ELSE LET shorter == TextsOf(n - 1)
       IN  shorter \cup {a \o c : a \in shorter, c \in Chunks}

EvalInputs == {None} \cup {Some(t) : t \in TextsOf(MaxChunks)}

(************************** results_to_dataframe ***************************)
\* Every item followed by the separator, the last one too.
RECURSIVE join_trailing(_, _)
join_trailing(sep, items) ==
  IF items = <<>> THEN "" ELSE items[1] \o sep \o join_trailing(sep, Tail(items))

\* sep.join(items)
RECURSIVE join(_, _)
join(sep, items) ==
  IF items = <<>> THEN ""
  ELSE IF Len(items) = 1 THEN items[1]
  ELSE items[1] \o sep \o join(sep, Tail(items))

\* src/app.py:103-105, the loop over res.items() from entry n on.
RECURSIVE row_from(_, _, _)
row_from(res, n, row) ==
  IF n > Len(res) THEN row
  ELSE LET ctrl    == res[n][1]
           outcome == res[n][2]
       IN  row_from(res, n + 1,
             DictSet(DictSet(row, ctrl \o "_status", outcome.status),
                     ctrl \o "_matches", join("; ", outcome.matches)))

\* src/app.py:102-105.
row_of(fname, res) == row_from(res, 1, <<<<"file", fname>>>>)

\* pandas.DataFrame(rows) of a list of dicts: the columns are the keys in order
\* of first appearance, a key a row lacks is NaN in that row.
RECURSIVE columns_from(_, _, _)
columns_from(rows, n, cols) ==
  IF n > Len(rows) THEN cols
  ELSE LET keys  == DictKeys(rows[n])
           fresh == SelectSeq(keys, LAMBDA k : \A c \in 1..Len(cols) : cols[c] # k)
       IN  columns_from(rows, n + 1, cols \o fresh)

DataFrame(rows) ==
  LET cols == columns_from(rows, 1, <<>>)
  IN  [columns |-> cols,
       data    |-> [r \in 1..Len(rows) |->
                      [c \in 1..Len(cols) |-> DictGet(rows[r], cols[c], "NaN")]]]

\* src/app.py:99-107.
results_to_dataframe(results_by_file) ==
  DataFrame([n \in 1..Len(results_by_file) |->
               row_of(results_by_file[n][1], results_by_file[n][2])])

(***************************** uploads *************************************)
\* str.endswith on the lower-cased file name (src/app.py:46, 53, 72).
Suffix == ("a.txt" :> "txt") @@ ("b.pdf" :> "pdf") @@ ("c.png" :> "png")
Names == DOMAIN Suffix

\* What the external extractor (EasyOCR, PyPDF2, bytes.decode) yields.
FileTexts ==
  { <<>>,
    <<" ", "\n">>,
    <<"D", "u", "o", " ", "P", "u", "s", "h">>,
    <<"A", "c", "t", "i", "o", "n", ":", " ", "s", "3", ":", "G", "e", "t", "*",
      ",", " ", "R", "e", "s", "o", "u", "r", "c", "e", ":", " ", "*">> }

\* An uploaded file: its name, the text its content holds, and whether the
\* extractor for its type is installed and reads it (decoding never fails).
Files ==
  {f \in [name : Names, content : FileTexts, readable : BOOLEAN] :
      ~f.readable => /\ Suffix[f.name] # "txt"
                     /\ f.content = <<"D", "u", "o", " ", "P", "u", "s", "h">>}

RECURSIVE UploadsOf(_)
UploadsOf(n) ==
  IF n = 0 THEN {<<>>}
  ELSE LET shorter == UploadsOf(n - 1)
       IN  shorter \cup {Append(u, f) : u \in shorter, f \in Files}

\* src/app.py:44-87.
extract_text(f) ==
  IF Suffix[f.name] = "png"
    THEN IF ~f.readable THEN <<>> ELSE f.content
  ELSE IF Suffix[f.name] = "pdf"
    THEN IF ~f.readable THEN <<>> ELSE f.content
  ELSE f.content

\* st.warning calls made inside extract_text (src/app.py:56, 80).
extract_warnings(f) ==
  IF Suffix[f.name] \in {"png", "pdf"} /\ ~f.readable
    THEN <<<<"warning", "extractor">>>> ELSE <<>>

\* The test `not text`: only the empty string is skipped.
is_empty(txt) == txt = <<>>

\* src/app.py:132, `not text.strip()`.
is_blank(txt) == strip(txt) = <<>>

\* src/app.py:144-146.
count_status(res, st) == Cardinality({n \in 1..Len(res) : res[n][2].status = st})

(***************************** state machine *******************************)
EvalIdle == text = None /\ out = <<>> /\ epc = "idle"
NormIdle == s = None /\ r1 = <<>> /\ r2 = <<>> /\ npc = "idle"
LoopIdle == uploads = <<>> /\ idx = 1 /\ results = <<>> /\ df = None
            /\ ui = <<>> /\ pc = "idle"

InitEval == text \in EvalInputs /\ out = <<>> /\ epc = "call"
            /\ NormIdle /\ LoopIdle

\* out = evaluate(text)
Evaluate ==
  /\ epc = "call"
  /\ out' = evaluate(text)
  /\ epc' = "returned"
  /\ UNCHANGED <<text, s, r1, r2, npc, uploads, idx, results, df, ui, pc>>

NextEval == Evaluate
SpecEval == InitEval /\ [][NextEval]_vars

(************************** normalize, twice *******************************)
NormAlphabet == {"a", "A", "1", " ", "\t", "\n", "U+00A0", "U+0130", "U+2102"}

RECURSIVE StringsOf(_)
StringsOf(n) ==
  IF n = 0 THEN {<<>>}
  ELSE LET shorter == StringsOf(n - 1)
       IN  shorter \cup {Append(a, c) : a \in shorter, c \in NormAlphabet}

NormInputs == {None} \cup {Some(t) : t \in StringsOf(MaxLen)}

InitNorm == s \in NormInputs /\ r1 = <<>> /\ r2 = <<>> /\ npc = "call"
            /\ EvalIdle /\ LoopIdle

\* r1 = normalize(s)
NormalizeOnce ==
  /\ npc = "call"
  /\ r1' = normalize(s)
  /\ npc' = "once"
  /\ UNCHANGED <<s, r2, text, out, epc, uploads, idx, results, df, ui, pc>>

\* r2 = normalize(r1)
NormalizeAgain ==
  /\ npc = "once"
  /\ r2' = normalize(Some(r1))
  /\ npc' = "twice"
  /\ UNCHANGED <<s, r1, text, out, epc, uploads, idx, results, df, ui, pc>>

NextNorm == NormalizeOnce \/ NormalizeAgain
SpecNorm == InitNorm /\ [][NextNorm]_vars

(*************************** the upload loop *******************************)
Init == /\ uploads \in UploadsOf(MaxFiles)
        /\ idx = 1 /\ results = <<>> /\ df = None /\ ui = <<>> /\ pc = "start"
        /\ EvalIdle /\ NormIdle

\* src/app.py:126-127, `if uploads: results = {}`.
Begin ==
  /\ pc = "start"
  /\ pc' = IF uploads # <<>> THEN "loop" ELSE "done"
  /\ UNCHANGED <<uploads, idx, results, df, ui, text, out, epc, s, r1, r2, npc>>

\* src/app.py:128-149, one iteration of `for uf in uploads`.
ProcessFile ==
  /\ pc = "loop"
  /\ idx <= Len(uploads)
  /\ LET uf  == uploads[idx]
         txt == extract_text(uf)
         res == evaluate(Some(txt))
     IN  IF is_blank(txt)
           THEN /\ ui' = ui \o extract_warnings(uf) \o <<<<"warning", uf.name>>>>
                /\ UNCHANGED results
           ELSE /\ results' = DictSet(results, uf.name, res)
                /\ ui' = ui \o extract_warnings(uf)
                            \o << <<"success", count_status(res, "COMPLIANT")>>,
                                  <<"error", count_status(res, "NON_COMPLIANT")>>,
                                  <<"info", count_status(res, "INSUFFICIENT_EVIDENCE")>> >>
  /\ idx' = idx + 1
  /\ UNCHANGED <<uploads, df, pc, text, out, epc, s, r1, r2, npc>>

\* src/app.py:151-165, after the loop.
Report ==
  /\ pc = "loop"
  /\ idx > Len(uploads)
  /\ df' = IF results # <<>> THEN Some(results_to_dataframe(results)) ELSE None
  /\ pc' = "done"
  /\ UNCHANGED <<uploads, idx, results, ui, text, out, epc, s, r1, r2, npc>>

Next == Begin \/ ProcessFile \/ Report
Spec == Init /\ [][Next]_vars

(***************************************************************************)
(* Properties of evaluate (checked under SpecEval).                        *)
(***************************************************************************)
Returned == epc = "returned"

\* The text the patterns are searched in.
Surface == normalize(text)

\* The catalogue positions of the patterns of cat that match t.
MatchedAt(cat, t) == {n \in 1..Len(cat) : re_search(cat[n], t)}

\* sel lists exactly the patterns of cat that match t, in catalogue order.
IsSelection(sel, cat, t) ==
  LET at == MatchedAt(cat, t)
  IN  /\ Len(sel) = Cardinality(at)
      /\ \A a \in 1..Len(sel) :
           \E n \in at : /\ Cardinality({m \in at : m < n}) = a - 1
                         /\ sel[a] = cat[n]

FailurePatterns(ctrl) == DictGet(FAIL_PATTERNS, ctrl, <<>>)

NoOutcome == [status |-> "absent", matches |-> <<>>]
Outcome(ctrl) == DictGet(out, ctrl, NoOutcome)

\* C1: once evaluate has returned, every control that has failure patterns of
\* which at least one matches the normalized text has status NON_COMPLIANT,
\* whether or not a compliance pattern matches too.
C1_FailurePrecedence ==
  Returned =>
    \A n \in 1..Len(CONTROLS) :
      LET ctrl == CONTROLS[n][1]
      IN  (/\ FailurePatterns(ctrl) # <<>>
           /\ MatchedAt(FailurePatterns(ctrl), Surface) # {})
          => Outcome(ctrl).status = "NON_COMPLIANT"

\* A failure pattern and a compliance pattern of the same control both match.
C1_Witness ==
  /\ Returned
  /\ \E n \in 1..Len(CONTROLS) :
       /\ MatchedAt(FailurePatterns(CONTROLS[n][1]), Surface) # {}
       /\ MatchedAt(CONTROLS[n][2], Surface) # {}
       /\ Outcome(CONTROLS[n][1]).status = "NON_COMPLIANT"

\* C2: the recorded matches of every control are the compliance patterns that
\* matched, in catalogue order, followed by the failure patterns that matched,
\* in catalogue order, and nothing else; also when the status is
\* NON_COMPLIANT.
C2_MatchesOrder ==
  Returned =>
    \A n \in 1..Len(CONTROLS) :
      LET ctrl == CONTROLS[n][1]
          m    == Outcome(ctrl).matches
          k    == Cardinality(MatchedAt(CONTROLS[n][2], Surface))
      IN  /\ k <= Len(m)
          /\ IsSelection(SubSeq(m, 1, k), CONTROLS[n][2], Surface)
          /\ IsSelection(SubSeq(m, k + 1, Len(m)), FailurePatterns(ctrl), Surface)

\* A NON_COMPLIANT control whose matches are a compliance hit, then the
\* failure hit.
C2_Witness ==
  /\ Returned
  /\ Outcome("iam_least_privilege") =
       [status  |-> "NON_COMPLIANT",
        matches |-> <<"action.*s3:get\\*", "action.*\\*.*resource.*\\*">>]

\* C3: a control none of whose compliance or failure patterns matches gets
\* INSUFFICIENT_EVIDENCE with no matches; for the empty string and for an
\* absent text that is every control of the catalogue.
C3_NoEvidence ==
  Returned =>
    /\ \A n \in 1..Len(CONTROLS) :
         LET ctrl == CONTROLS[n][1]
         IN  (/\ MatchedAt(CONTROLS[n][2], Surface) = {}
              /\ MatchedAt(FailurePatterns(ctrl), Surface) = {})
             => Outcome(ctrl) = [status  |-> "INSUFFICIENT_EVIDENCE",
                                 matches |-> <<>>]
    /\ (text = None \/ text = Some(<<>>)) =>
         \A n \in 1..Len(CONTROLS) :
           Outcome(CONTROLS[n][1]).status = "INSUFFICIENT_EVIDENCE"

\* evaluate("") has returned.
C3_Witness ==
  /\ Returned
  /\ text = Some(<<>>)
  /\ \A n \in 1..Len(out) : out[n][2] = [status  |-> "INSUFFICIENT_EVIDENCE",
                                         matches |-> <<>>]

\* C4: a control is COMPLIANT exactly when one of its compliance patterns
\* matches and none of its failure patterns does, and its matches are then
\* the compliance hits alone.
C4_CompliantIff ==
  Returned =>
    \A n \in 1..Len(CONTROLS) :
      LET ctrl == CONTROLS[n][1]
      IN  /\ Outcome(ctrl).status = "COMPLIANT"
               <=> /\ MatchedAt(CONTROLS[n][2], Surface) # {}
                   /\ MatchedAt(FailurePatterns(ctrl), Surface) = {}
          /\ Outcome(ctrl).status = "COMPLIANT"
               => IsSelection(Outcome(ctrl).matches, CONTROLS[n][2], Surface)

\* A COMPLIANT control with two compliance hits, next to a control whose
\* compliance hit is overridden by a failure hit.
C4_Witness ==
  /\ Returned
  /\ \E n \in 1..Len(CONTROLS) :
       /\ Outcome(CONTROLS[n][1]).status = "COMPLIANT"
       /\ Len(Outcome(CONTROLS[n][1]).matches) = 2
  /\ \E n \in 1..Len(CONTROLS) :
       /\ Outcome(CONTROLS[n][1]).status = "NON_COMPLIANT"
       /\ MatchedAt(CONTROLS[n][2], Surface) # {}

\* C5: the result of evaluate has one outcome for each control id of the
\* catalogue, in catalogue order, and none for any other id.
C5_Totality ==
  Returned =>
    /\ DictKeys(out) = DictKeys(CONTROLS)
    /\ Len(out) = Len(CONTROLS)
    /\ \A a, b \in 1..Len(out) : out[a][1] = out[b][1] => a = b

\* The three statuses occur together in one result.
C5_Witness ==
  /\ Returned
  /\ {out[n][2].status : n \in 1..Len(out)} =
       {"COMPLIANT", "NON_COMPLIANT", "INSUFFICIENT_EVIDENCE"}

\* C6: a control without failure patterns (every control but
\* iam_least_privilege) is never NON_COMPLIANT.
C6_NoFailurePatterns ==
  /\ {CONTROLS[n][1] : n \in 1..Len(CONTROLS)} \ {"iam_least_privilege"}
       = {CONTROLS[n][1] : n \in {m \in 1..Len(CONTROLS) :
                                    FailurePatterns(CONTROLS[m][1]) = <<>>}}
  /\ Returned =>
       \A n \in 1..Len(CONTROLS) :
         FailurePatterns(CONTROLS[n][1]) = <<>>
           => Outcome(CONTROLS[n][1]).status \in {"COMPLIANT", "INSUFFICIENT_EVIDENCE"}

\* The failure pattern of the catalogue matches the text, and a control
\* without failure patterns has compliance hits in the same text.
C6_Witness ==
  /\ Returned
  /\ Outcome("iam_least_privilege").status = "NON_COMPLIANT"
  /\ \E n \in 1..Len(CONTROLS) :
       /\ FailurePatterns(CONTROLS[n][1]) = <<>>
       /\ Outcome(CONTROLS[n][1]).status = "COMPLIANT"

(***************************************************************************)
(* Properties of the upload loop and the report (checked under Spec).      *)
(***************************************************************************)
\* Empty, or whitespace only.
OnlyWhitespace(txt) == \A n \in 1..Len(txt) : txt[n] \in Whitespace

\* The files the loop has gone through.
Processed == SubSeq(uploads, 1, idx - 1)

\* Those of them that yielded text.
WithText(files) == SelectSeq(files, LAMBDA f : ~OnlyWhitespace(extract_text(f)))

\* The `file` column of the report, empty when no report was built.
ReportFiles ==
  IF df = None THEN <<>>
  ELSE [r \in 1..Len(df.v.data) |-> df.v.data[r][1]]

CountEvents(kind) == Cardinality({n \in 1..Len(ui) : ui[n][1] = kind})

\* C7: after the run the report has one row per file that yielded text, in
\* the order the files were processed.
C7_OneRowPerFile ==
  pc = "done" =>
    ReportFiles = [n \in 1..Len(WithText(uploads)) |-> WithText(uploads)[n].name]

\* The results a run over files builds when every one of them is evaluated.
RECURSIVE ResultsOf(_)
ResultsOf(files) ==
  IF files = <<>> THEN <<>>
  ELSE LET last == files[Len(files)]
       IN  DictSet(ResultsOf(SubSeq(files, 1, Len(files) - 1)),
                   last.name, evaluate(Some(extract_text(last))))

\* C8: a file whose text is empty or whitespace only is not evaluated and adds
\* nothing to the results: the results are those of the run without such
\* files, one evaluation was shown per file with text, the loop goes on to the
\* end of the uploads, and every file with text is in the report.
C8_BlankSkipped ==
  pc \in {"loop", "done"} =>
    /\ results = ResultsOf(WithText(Processed))
    /\ CountEvents("info") = Len(WithText(Processed))
    /\ Cardinality({n \in 1..Len(ui) : ui[n][1] = "warning" /\ ui[n][2] \in Names})
         = Len(Processed) - Len(WithText(Processed))
    /\ pc = "done" =>
         /\ idx = Len(uploads) + 1
         /\ {ReportFiles[r] : r \in 1..Len(ReportFiles)}
              = {WithText(uploads)[n].name : n \in 1..Len(WithText(uploads))}

\* A run is over in which a whitespace-only file came before a file with text.
C8_Witness ==
  /\ pc = "done"
  /\ Len(uploads) >= 2
  /\ extract_text(uploads[1]) # <<>>
  /\ OnlyWhitespace(extract_text(uploads[1]))
  /\ ~OnlyWhitespace(extract_text(uploads[2]))
  /\ ReportFiles = <<uploads[2].name>>

\* The columns of the report: file, then per control of the catalogue its
\* status and its matches.
RECURSIVE ColumnsFrom(_)
ColumnsFrom(n) ==
  IF n > Len(CONTROLS) THEN <<>>
  ELSE <<CONTROLS[n][1] \o "_status", CONTROLS[n][1] \o "_matches">> \o ColumnsFrom(n + 1)

ExpectedColumns == <<"file">> \o ColumnsFrom(1)

\* The first n items with "; " between them.
RECURSIVE Joined(_, _)
Joined(items, n) ==
  IF n = 0 THEN ""
  ELSE IF n = 1 THEN items[1]
  ELSE Joined(items, n - 1) \o "; " \o items[n]

\* C9: every row of the report has the columns file, then
\* {control}_status and {control}_matches per control in catalogue order; the
\* matches cell is the matched patterns joined with "; ", the empty string
\* when nothing matched.
C9_RowColumns ==
  (pc = "done" /\ df # None) =>
    /\ df.v.columns = ExpectedColumns
    /\ Len(df.v.data) = Len(results)
    /\ \A r \in 1..Len(results) :
         LET res == results[r][2]
             row == df.v.data[r]
         IN  /\ DictKeys(row_of(results[r][1], res)) = ExpectedColumns
             /\ Len(row) = 1 + 2 * Len(CONTROLS)
             /\ row[1] = results[r][1]
             /\ \A n \in 1..Len(CONTROLS) :
                  LET o == DictGet(res, CONTROLS[n][1], NoOutcome)
                  IN  /\ row[2 * n] = o.status
                      /\ row[2 * n + 1] = Joined(o.matches, Len(o.matches))
                      /\ o.matches = <<>> => row[2 * n + 1] = ""

\* A report of two rows, one of them with two joined matches.
C9_Witness ==
  /\ pc = "done"
  /\ df # None
  /\ Len(df.v.data) = 2
  /\ \E r \in 1..2 :
       df.v.data[r][15] = "action.*s3:get\\*; action.*\\*.*resource.*\\*"

(***************************************************************************)
(* Properties of normalize (checked under SpecNorm).                       *)
(***************************************************************************)
NoWhitespaceRun(str) ==
  \A n \in 1..Len(str) :
    str[n] \in Whitespace => (n = Len(str) \/ str[n + 1] \notin Whitespace)

\* C10 as stated: normalize is idempotent, and its result has no two
\* consecutive whitespace characters and no uppercase character.
C10_Original ==
  npc = "twice" =>
    /\ r2 = r1
    /\ NoWhitespaceRun(r1)
    /\ \A n \in 1..Len(r1) : ~IsUpperChar(r1[n])

\* C10: normalize is idempotent, and its result has no two consecutive
\* whitespace characters and no character that str.lower() would change (an
\* uppercase character without a lowercase form stays).
C10_Idempotent ==
  npc = "twice" =>
    /\ r2 = r1
    /\ NoWhitespaceRun(r1)
    /\ \A n \in 1..Len(r1) : lower_char(r1[n]) = <<r1[n]>>

\* normalize ran twice on a string with an uppercase letter and a whitespace
\* run.
C10_Witness ==
  /\ npc = "twice"
  /\ s # None
  /\ \E n \in 1..Len(s.v) : s.v[n] = "A"
  /\ \E n \in 1..(Len(s.v) - 1) : s.v[n] \in Whitespace /\ s.v[n + 1] \in Whitespace
  /\ r1 # <<>>
====
